---------------------------- MODULE Spec2Model ----------------------------
(***************************************************************************)
(* Two 32-bit hashes of a network 5-tuple:                                 *)
(*   murmurhash3_5tuple  (src/codesnip/hash/5-tuple-murmur3-hash.c)        *)
(*   jenkins_hash_5tuple (src/unnamed/part_000)                            *)
(*                                                                         *)
(* A uint32_t is the pair <<hi, lo>> of its 16-bit halves, so that every   *)
(* operation is computed modulo 2^32 with intermediate values that stay    *)
(* below 2^31.  A uint16_t is a number in 0..65535, a uint8_t in 0..255.   *)
(***************************************************************************)
EXTENDS Integers, Sequences, FiniteSets, TLC

VARIABLES build, pc, fn, args, mem, loc, log, ub, ret

vars == <<build, pc, fn, args, mem, loc, log, ub, ret>>

---------------------------------------------------------------------------
(* uint32_t arithmetic                                                     *)

Half == 2^16

U32 == (0 .. Half - 1) \X (0 .. Half - 1)

u32(hi, lo) == <<hi, lo>>

Zero32 == u32(0, 0)

\* a uint8_t or uint16_t value converted to uint32_t
ToU32(n) == u32(0, n)

Add32(x, y) ==
    LET lo == x[2] + y[2]
    IN  u32((x[1] + y[1] + (lo \div Half)) % Half, lo % Half)

Sub32(x, y) ==
    LET lo == x[2] - y[2]
        borrow == IF lo < 0 THEN 1 ELSE 0
    IN  u32((x[1] - y[1] - borrow + 2 * Half) % Half, (lo + Half) % Half)

\* byte i (0 = least significant) of a uint32_t: (x >> 8*i) & 0xFF
ByteOf(x, i) ==
    CASE i = 0 -> x[2] % 256
      [] i = 1 -> x[2] \div 256
      [] i = 2 -> x[1] % 256
      [] i = 3 -> x[1] \div 256

Mul32(x, y) ==
    LET a(i) == ByteOf(x, i)
        b(i) == ByteOf(y, i)
        c0 == a(0) * b(0)
        c1 == a(0) * b(1) + a(1) * b(0) + (c0 \div 256)
        c2 == a(0) * b(2) + a(1) * b(1) + a(2) * b(0) + (c1 \div 256)
        c3 == a(0) * b(3) + a(1) * b(2) + a(2) * b(1) + a(3) * b(0) + (c2 \div 256)
    IN  u32((c3 % 256) * 256 + (c2 % 256), (c1 % 256) * 256 + (c0 % 256))

\* bitwise operations on 4-bit digits, tabulated once
RECURSIVE BitwiseXor(_, _, _)
BitwiseXor(x, y, n) ==
    IF n = 0 THEN 0
    ELSE ((x + y) % 2) + 2 * BitwiseXor(x \div 2, y \div 2, n - 1)

RECURSIVE BitwiseOr(_, _, _)
BitwiseOr(x, y, n) ==
    IF n = 0 THEN 0
    ELSE (IF x % 2 = 1 \/ y % 2 = 1 THEN 1 ELSE 0) + 2 * BitwiseOr(x \div 2, y \div 2, n - 1)

XorTable == [x \in 0 .. 15 |-> [y \in 0 .. 15 |-> BitwiseXor(x, y, 4)]]

OrTable == [x \in 0 .. 15 |-> [y \in 0 .. 15 |-> BitwiseOr(x, y, 4)]]

\* a bitwise operation on 16-bit values, digit by digit
Digitwise(T, x, y) ==
      T[x % 16][y % 16]
    + 16 * T[(x \div 16) % 16][(y \div 16) % 16]
    + 256 * T[(x \div 256) % 16][(y \div 256) % 16]
    + 4096 * T[x \div 4096][y \div 4096]

Xor32(x, y) == u32(Digitwise(XorTable, x[1], y[1]), Digitwise(XorTable, x[2], y[2]))

Or32(x, y) == u32(Digitwise(OrTable, x[1], y[1]), Digitwise(OrTable, x[2], y[2]))

\* x << n and x >> n on uint32_t; C defines them for 0 <= n < 32 only
Shl32(x, n) ==
    IF n >= 16
    THEN u32((x[2] * 2^(n - 16)) % Half, 0)
    ELSE u32((x[1] * 2^n + (x[2] \div 2^(16 - n))) % Half, (x[2] * 2^n) % Half)

Shr32(x, n) ==
    IF n >= 16
    THEN u32(0, x[1] \div 2^(n - 16))
    ELSE u32(x[1] \div 2^n, (x[2] \div 2^n) + (x[1] % 2^n) * 2^(16 - n))

\* F applied to the value of x: x is computed first, so that a long chain of
\* rounds is evaluated one round at a time
Then(x, F(_)) == CHOOSE r \in {F(v) : v \in {x}} : TRUE

---------------------------------------------------------------------------
(* Host representation of objects                                          *)

\* the n bytes of an n-byte unsigned object as they lie in memory on a host
\* of the given byte order (what memcpy from the object copies)
ObjectRep(x, n, endian) ==
    [i \in 1 .. n |-> IF endian = "little" THEN ByteOf(x, i - 1) ELSE ByteOf(x, n - i)]

\* buf with bytes written at offset off (0-based), the rest left as it was
Store(buf, off, bytes) ==
    [i \in 1 .. Len(buf) |->
        IF i > off /\ i <= off + Len(bytes) THEN bytes[i - off] ELSE buf[i]]

\* the uint32_t a host of the given byte order reads from 4 bytes in memory
WordOf(b, endian) ==
    IF endian = "little"
    THEN u32(b[4] * 256 + b[3], b[2] * 256 + b[1])
    ELSE u32(b[1] * 256 + b[2], b[3] * 256 + b[4])

\* blocks[i] with blocks = (const uint32_t*)key : a native 32-bit load
LoadBlock(key, i, endian) ==
    WordOf(<<key[4 * i + 1], key[4 * i + 2], key[4 * i + 3], key[4 * i + 4]>>, endian)

---------------------------------------------------------------------------
(* Variant A: MurmurHash3 x86_32 over the 13-byte key                      *)

c1 == u32(\Hcc9e, \H2d51)
c2 == u32(\H1b87, \H3593)
n1 == u32(\He654, \H6b64)
f1 == u32(\H85eb, \Hca6b)
f2 == u32(\Hc2b2, \Hae35)

rotl32(x, r) == Or32(Shl32(x, r), Shr32(x, 32 - r))

\* the shift amounts one rotate by r executes
RotShifts(r) == {r, 32 - r}

\* sizeof(data)
DataLen == 13

\* k1 *= c1; k1 = rotl32(k1, 15); k1 *= c2;
ScrambleK(k1) == Mul32(rotl32(Mul32(k1, c1), 15), c2)

\* one iteration of the block loop on the loaded word k1
BlockRound(h1, k1) ==
    Add32(Mul32(rotl32(Xor32(h1, ScrambleK(k1)), 13), u32(0, 5)), n1)

\* len & 2 written for len & 3
TailCaseAnd2(len) == 2 * ((len \div 2) % 2)

\* the selector of the tail switch: len & 3
TailCase(len) == len % 4

\* the tail switch: cases 3 and 2 fall through to case 1
TailWord(tail, r) ==
    LET k3 == IF r >= 3 THEN Xor32(Zero32, Shl32(ToU32(tail[3]), 16)) ELSE Zero32
        k2 == IF r >= 2 THEN Xor32(k3, Shl32(ToU32(tail[2]), 8)) ELSE k3
    IN  Xor32(k2, ToU32(tail[1]))

TailRound(h1, tail, r) ==
    IF r = 0 THEN h1 ELSE Xor32(h1, ScrambleK(TailWord(tail, r)))

\* the two multipliers of the finalization exchanged
FinStepSwapped(j, h1, len) ==
    CASE j = 0 -> Xor32(h1, ToU32(len))
      [] j = 1 -> Xor32(h1, Shr32(h1, 16))
      [] j = 2 -> Mul32(h1, f2)
      [] j = 3 -> Xor32(h1, Shr32(h1, 13))
      [] j = 4 -> Mul32(h1, f1)
      [] j = 5 -> Xor32(h1, Shr32(h1, 16))

\* the six statements of the finalization, in program order
FinStep(j, h1, len) ==
    CASE j = 0 -> Xor32(h1, ToU32(len))
      [] j = 1 -> Xor32(h1, Shr32(h1, 16))
      [] j = 2 -> Mul32(h1, f1)
      [] j = 3 -> Xor32(h1, Shr32(h1, 13))
      [] j = 4 -> Mul32(h1, f2)
      [] j = 5 -> Xor32(h1, Shr32(h1, 16))

FinOp(j) ==
    CASE j = 0 -> [op |-> "xorlen", sh |-> {}]
      [] j = 1 -> [op |-> "xorshift", sh |-> {16}]
      [] j = 2 -> [op |-> "mul", sh |-> {}]
      [] j = 3 -> [op |-> "xorshift", sh |-> {13}]
      [] j = 4 -> [op |-> "mul", sh |-> {}]
      [] j = 5 -> [op |-> "xorshift", sh |-> {16}]

FinSteps == 6

RECURSIVE Blocks(_, _, _, _, _)
Blocks(h1, key, i, nblocks, endian) ==
    IF i >= nblocks THEN h1
    ELSE Then(BlockRound(h1, LoadBlock(key, i, endian)),
              LAMBDA h : Blocks(h, key, i + 1, nblocks, endian))

RECURSIVE Fin(_, _, _)
Fin(j, h1, len) ==
    IF j >= FinSteps THEN h1
    ELSE Then(FinStep(j, h1, len), LAMBDA h : Fin(j + 1, h, len))

\* murmur3_32(key, len, seed) as one value, on a host of the given byte order
murmur3_32(key, len, seed, endian) ==
    LET nblocks == len \div 4
        tail == SubSeq(key, nblocks * 4 + 1, len)
    IN  Then(Blocks(seed, key, 0, nblocks, endian),
             LAMBDA h3 : Then(TailRound(h3, tail, TailCase(len)),
                              LAMBDA h : Fin(0, h, len)))

\* the data buffer after the four memcpy calls and the protocol store
PackA(buf, t, endian) ==
    LET b0 == Store(buf, 0, ObjectRep(t.src_ip, 4, endian))
        b1 == Store(b0, 4, ObjectRep(t.dst_ip, 4, endian))
        b2 == Store(b1, 8, ObjectRep(ToU32(t.src_port), 2, endian))
        b3 == Store(b2, 10, ObjectRep(ToU32(t.dst_port), 2, endian))
    IN  Store(b3, 12, <<t.protocol>>)

murmurhash3_5tuple(t, endian) ==
    murmur3_32(PackA([i \in 1 .. DataLen |-> 0], t, endian), DataLen, t.seed, endian)

---------------------------------------------------------------------------
(* Variant B: Jenkins lookup3 over the 13-byte key                         *)

rot(x, k) == Or32(Shl32(x, k), Shr32(x, 32 - k))

\* the mix() macro on the state s = [a, b, c]; the hash itself never calls it
mix(s) ==
    LET round(t, x, y, z, k) ==
            \* x -= z;  x ^= rot(z, k);  z += y;
            LET x1 == Xor32(Sub32(t[x], t[z]), rot(t[z], k))
            IN  [t EXCEPT ![x] = x1, ![z] = Add32(t[z], t[y])]
    IN  Then(round(s, "a", "b", "c", 4), LAMBDA s1 :
        Then(round(s1, "b", "c", "a", 6), LAMBDA s2 :
        Then(round(s2, "c", "a", "b", 8), LAMBDA s3 :
        Then(round(s3, "a", "b", "c", 16), LAMBDA s4 :
        Then(round(s4, "b", "c", "a", 19), LAMBDA s5 :
             round(s5, "c", "a", "b", 4))))))

\* final() with its last rotate taken from the line above it
FinalOpLast14(j) ==
    CASE j = 0 -> [tgt |-> "c", src |-> "b", r |-> 14]
      [] j = 1 -> [tgt |-> "a", src |-> "c", r |-> 11]
      [] j = 2 -> [tgt |-> "b", src |-> "a", r |-> 25]
      [] j = 3 -> [tgt |-> "c", src |-> "b", r |-> 16]
      [] j = 4 -> [tgt |-> "a", src |-> "c", r |-> 4]
      [] j = 5 -> [tgt |-> "b", src |-> "a", r |-> 14]
      [] j = 6 -> [tgt |-> "c", src |-> "b", r |-> 14]

\* the statements of the final() macro, in program order:
\*   tgt ^= src;  tgt -= rot(src, r);
FinalOp(j) ==
    CASE j = 0 -> [tgt |-> "c", src |-> "b", r |-> 14]
      [] j = 1 -> [tgt |-> "a", src |-> "c", r |-> 11]
      [] j = 2 -> [tgt |-> "b", src |-> "a", r |-> 25]
      [] j = 3 -> [tgt |-> "c", src |-> "b", r |-> 16]
      [] j = 4 -> [tgt |-> "a", src |-> "c", r |-> 4]
      [] j = 5 -> [tgt |-> "b", src |-> "a", r |-> 14]
      [] j = 6 -> [tgt |-> "c", src |-> "b", r |-> 24]

FinalSteps == 7

FinalStep(j, s) ==
    LET o == FinalOp(j)
    IN  [s EXCEPT ![o.tgt] = Sub32(Xor32(s[o.tgt], s[o.src]), rot(s[o.src], o.r))]

RECURSIVE final(_, _)
final(j, s) ==
    IF j >= FinalSteps THEN s
    ELSE Then(FinalStep(j, s), LAMBDA s1 : final(j + 1, s1))

\* uint32_t length = 13;
Length == 13

\* the key bytes written by the thirteen stores
PackB(buf, t) ==
    LET b0 == Store(buf, 0, [i \in 1 .. 4 |-> ByteOf(t.src_ip, i - 1)])
        b1 == Store(b0, 4, [i \in 1 .. 4 |-> ByteOf(t.dst_ip, i - 1)])
        b2 == Store(b1, 8, [i \in 1 .. 2 |-> ByteOf(ToU32(t.src_port), i - 1)])
        b3 == Store(b2, 10, [i \in 1 .. 2 |-> ByteOf(ToU32(t.dst_port), i - 1)])
    IN  Store(b3, 12, <<t.protocol>>)

\* a = b = c = 0xdeadbeef + length + seed;
InitABC(seed) ==
    LET v == Add32(Add32(u32(\Hdead, \Hbeef), ToU32(Length)), seed)
    IN  [a |-> v, b |-> v, c |-> v]

\* key[i] << n is a shift of the promoted (signed) int: the result is defined
\* only when key[i] * 2^n fits in 31 bits
IntShlOverflows(byte, n) == byte >= 2^(31 - n)

\* the four key bytes assembled most significant byte first
KeyWordBigEndian(key, k) ==
    Or32(Or32(Or32(ToU32(key[k + 4]), Shl32(ToU32(key[k + 3]), 8)),
              Shl32(ToU32(key[k + 2]), 16)),
         Shl32(ToU32(key[k + 1]), 24))

\* key[k] | (key[k+1] << 8) | (key[k+2] << 16) | (key[k+3] << 24), k 0-based,
\* as the bit pattern that the conversion to uint32_t keeps
KeyWord(key, k) ==
    Or32(Or32(Or32(ToU32(key[k + 1]), Shl32(ToU32(key[k + 2]), 8)),
              Shl32(ToU32(key[k + 3]), 16)),
         Shl32(ToU32(key[k + 4]), 24))

KeyWordOverflows(key, k) ==
    \/ IntShlOverflows(key[k + 2], 8)
    \/ IntShlOverflows(key[k + 3], 16)
    \/ IntShlOverflows(key[k + 4], 24)

\* the three additions of the 12-byte block
AddBlock(s, key) ==
    [a |-> Add32(s.a, KeyWord(key, 0)),
     b |-> Add32(s.b, KeyWord(key, 4)),
     c |-> Add32(s.c, KeyWord(key, 8))]

\* the leftover byte added to b
AddTailToB(s, key, rest) ==
    IF rest = 1 THEN [s EXCEPT !.b = Add32(s.b, ToU32(key[13]))] ELSE s

\* switch (length - 12) { case 1: a += key[12]; break; }
AddTail(s, key, rest) ==
    IF rest = 1 THEN [s EXCEPT !.a = Add32(s.a, ToU32(key[13]))] ELSE s

jenkins_hash_5tuple(t) ==
    LET key == PackB([i \in 1 .. Length |-> 0], t)
    IN  Then(AddBlock(InitABC(t.seed), key), LAMBDA s1 :
        Then(AddTail(s1, key, Length - 12), LAMBDA s2 : final(0, s2).c))

---------------------------------------------------------------------------
(* Inputs, platforms and callers                                           *)

NumCallers == 2

Callers == 1 .. NumCallers

\* ub[p] names the undefined operations caller p's call has executed.
\* a platform: the host byte order, and whether an undefined operation
\* (a signed shift whose result does not fit in int, a 32-bit load through a
\* misaligned pointer) stops the program there, as on strict-alignment
\* hardware or in an instrumented build, or carries on with the wrapped value
Builds == [endian : {"little", "big"}, strict : BOOLEAN]

SrcIps == {Zero32, u32(0, 1), u32(\H8000, 0), u32(\HC0A8, \H0101)}
DstIps == {Zero32, u32(\H0808, \H0808), u32(\HFFFF, \HFFFF)}
SrcPorts == {0, 12345}
DstPorts == {0, 80, 65535}
Protocols == {0, 1, 6}
Seeds == {Zero32, u32(\H1234, \H5678), u32(\H066c, \Hcc08)}

Tuples ==
    [src_ip : SrcIps, dst_ip : DstIps, src_port : SrcPorts, dst_port : DstPorts,
     protocol : Protocols, seed : Seeds]

Tuple(s, d, sp, dp, p, seed) ==
    [src_ip |-> s, dst_ip |-> d, src_port |-> sp, dst_port |-> dp,
     protocol |-> p, seed |-> seed]

\* the 5-tuple and seed of both main() functions
MainTuple ==
    Tuple(u32(\HC0A8, \H0101), u32(\H0808, \H0808), 12345, 80, 6, u32(\H1234, \H5678))

\* the calls made when several callers run at once
ConcCalls ==
    {<<"murmur", MainTuple>>,
     <<"jenkins", Tuple(Zero32, Zero32, 0, 0, 1, Zero32)>>,
     <<"jenkins", Tuple(u32(0, 1), Zero32, 0, 0, 0, Zero32)>>}

\* what an uninitialised byte of a fresh stack frame may hold
JunkBytes == {0, 165}

NoArgs == Tuple(Zero32, Zero32, 0, 0, 0, Zero32)

NoRet == <<>>

IdleLoc == [h1 |-> Zero32, i |-> 0, j |-> 0, a |-> Zero32, b |-> Zero32, c |-> Zero32,
            aligned |-> TRUE]

\* one static key buffer for every call
SharedFrame(p) == 1

\* the memory that holds caller p's key buffer: an automatic array of the call
FrameOf(p) == p

Key(p) == mem[FrameOf(p)]

ABC(p) == [a |-> loc[p].a, b |-> loc[p].b, c |-> loc[p].c]

Running == \A q \in Callers : pc[q] # "trap"

Entry(op, tgt, n, sh, val) == [op |-> op, tgt |-> tgt, n |-> n, sh |-> sh, val |-> val]

---------------------------------------------------------------------------
(* The calls, statement group by statement group                           *)

Init ==
    /\ build \in Builds
    /\ pc = [p \in Callers |-> "idle"]
    /\ fn = [p \in Callers |-> "none"]
    /\ args = [p \in Callers |-> NoArgs]
    /\ mem = [p \in Callers |-> [i \in 1 .. DataLen |-> 0]]
    /\ loc = [p \in Callers |-> IdleLoc]
    /\ log = [p \in Callers |-> <<>>]
    /\ ub = [p \in Callers |-> {}]
    /\ ret = [p \in Callers |-> NoRet]

\* caller p enters f(t): a fresh frame whose key buffer holds junk
Call(p, f, t, junk, al) ==
    /\ Running
    /\ pc[p] = "idle"
    /\ f = "jenkins" => al
    /\ pc' = [pc EXCEPT ![p] = "pack"]
    /\ fn' = [fn EXCEPT ![p] = f]
    /\ args' = [args EXCEPT ![p] = t]
    /\ mem' = [mem EXCEPT ![FrameOf(p)] = [i \in 1 .. DataLen |-> junk]]
    /\ loc' = [loc EXCEPT ![p] = [IdleLoc EXCEPT !.aligned = al]]
    /\ log' = [log EXCEPT ![p] = <<>>]
    /\ ub' = [ub EXCEPT ![p] = {}]
    /\ ret' = [ret EXCEPT ![p] = NoRet]
    /\ UNCHANGED build

\* one call at a time, over the whole input set
CallSeq(p) ==
    /\ \A q \in Callers : pc[q] = "idle"
    /\ \E f \in {"murmur", "jenkins"}, t \in Tuples, junk \in JunkBytes, al \in BOOLEAN :
          Call(p, f, t, junk, al)

\* calls that overlap in time
CallConc(p) ==
    /\ pc[p] = "idle"
    /\ \E ft \in ConcCalls, junk \in JunkBytes, al \in BOOLEAN :
          Call(p, ft[1], ft[2], junk, al)

\* murmurhash3_5tuple up to the call of murmur3_32, and its first statements
MurmurPack(p) ==
    /\ Running
    /\ fn[p] = "murmur" /\ pc[p] = "pack"
    /\ mem' = [mem EXCEPT ![FrameOf(p)] = PackA(Key(p), args[p], build.endian)]
    /\ loc' = [loc EXCEPT ![p].h1 = args[p].seed, ![p].i = 0]
    /\ pc' = [pc EXCEPT ![p] = IF 0 < DataLen \div 4 THEN "loop" ELSE "tail"]
    /\ UNCHANGED <<build, fn, args, log, ub, ret>>

\* one iteration of the block loop
MurmurBlock(p) ==
    /\ Running
    /\ fn[p] = "murmur" /\ pc[p] = "loop"
    /\ ub' = [ub EXCEPT ![p] = ub[p] \cup (IF loc[p].aligned THEN {} ELSE {"misaligned load"})]
    /\ IF ~loc[p].aligned /\ build.strict
       THEN /\ pc' = [pc EXCEPT ![p] = "trap"]
            /\ UNCHANGED <<loc, log>>
       ELSE LET h == BlockRound(loc[p].h1, LoadBlock(Key(p), loc[p].i, build.endian))
            IN  /\ loc' = [loc EXCEPT ![p].h1 = h, ![p].i = loc[p].i + 1]
                /\ log' = [log EXCEPT ![p] = Append(log[p],
                              Entry("block", "h1", loc[p].i,
                                    RotShifts(15) \cup RotShifts(13), h))]
                /\ pc' = [pc EXCEPT ![p] =
                              IF loc[p].i + 1 < DataLen \div 4 THEN "loop" ELSE "tail"]
    /\ UNCHANGED <<build, fn, args, mem, ret>>

\* the tail switch
MurmurTail(p) ==
    /\ Running
    /\ fn[p] = "murmur" /\ pc[p] = "tail"
    /\ LET nblocks == DataLen \div 4
           r == TailCase(DataLen)
           tail == SubSeq(Key(p), nblocks * 4 + 1, DataLen)
           h == TailRound(loc[p].h1, tail, r)
           sh == (IF r >= 3 THEN {16} ELSE {}) \cup (IF r >= 2 THEN {8} ELSE {})
                     \cup (IF r >= 1 THEN RotShifts(15) ELSE {})
       IN  /\ loc' = [loc EXCEPT ![p].h1 = h, ![p].j = 0]
           /\ log' = [log EXCEPT ![p] =
                         IF r >= 1 THEN Append(log[p], Entry("tail", "h1", r, sh, h))
                         ELSE log[p]]
    /\ pc' = [pc EXCEPT ![p] = "fin"]
    /\ UNCHANGED <<build, fn, args, mem, ub, ret>>

\* one statement of the finalization; the last one is followed by the return
MurmurFin(p) ==
    /\ Running
    /\ fn[p] = "murmur" /\ pc[p] = "fin"
    /\ LET j == loc[p].j
           h == FinStep(j, loc[p].h1, DataLen)
           last == j + 1 >= FinSteps
       IN  /\ loc' = [loc EXCEPT ![p].h1 = h, ![p].j = j + 1]
           /\ log' = [log EXCEPT ![p] = Append(log[p],
                         Entry(FinOp(j).op, "h1", j, FinOp(j).sh, h))]
           /\ pc' = [pc EXCEPT ![p] = IF last THEN "done" ELSE "fin"]
           /\ ret' = [ret EXCEPT ![p] = IF last THEN h ELSE NoRet]
    /\ UNCHANGED <<build, fn, args, mem, ub>>

\* jenkins_hash_5tuple: the key stores and the initialisation of a, b, c
JenkinsPack(p) ==
    /\ Running
    /\ fn[p] = "jenkins" /\ pc[p] = "pack"
    /\ mem' = [mem EXCEPT ![FrameOf(p)] = PackB(Key(p), args[p])]
    /\ LET s == InitABC(args[p].seed)
       IN  loc' = [loc EXCEPT ![p].a = s.a, ![p].b = s.b, ![p].c = s.c]
    /\ pc' = [pc EXCEPT ![p] = "block"]
    /\ UNCHANGED <<build, fn, args, log, ub, ret>>

\* the three additions of the 12-byte block
JenkinsBlock(p) ==
    /\ Running
    /\ fn[p] = "jenkins" /\ pc[p] = "block"
    /\ LET over == \E k \in {0, 4, 8} : KeyWordOverflows(Key(p), k)
           s == AddBlock(ABC(p), Key(p))
       IN  /\ ub' = [ub EXCEPT ![p] = ub[p] \cup (IF over THEN {"signed shift overflow"} ELSE {})]
           /\ IF over /\ build.strict
              THEN /\ pc' = [pc EXCEPT ![p] = "trap"]
                   /\ UNCHANGED <<loc, log>>
              ELSE /\ loc' = [loc EXCEPT ![p].a = s.a, ![p].b = s.b, ![p].c = s.c]
                   /\ log' = [log EXCEPT ![p] = Append(log[p],
                                 Entry("block", "abc", 0, {8, 16, 24}, s))]
                   /\ pc' = [pc EXCEPT ![p] = "btail"]
    /\ UNCHANGED <<build, fn, args, mem, ret>>

\* the switch on length - 12
JenkinsTail(p) ==
    /\ Running
    /\ fn[p] = "jenkins" /\ pc[p] = "btail"
    /\ LET rest == Length - 12
           s == AddTail(ABC(p), Key(p), rest)
       IN  /\ loc' = [loc EXCEPT ![p].a = s.a, ![p].b = s.b, ![p].c = s.c, ![p].j = 0]
           /\ log' = [log EXCEPT ![p] =
                         IF rest = 1
                         THEN Append(log[p], Entry("tail", "a", rest, {}, s))
                         ELSE log[p]]
    /\ pc' = [pc EXCEPT ![p] = "final"]
    /\ UNCHANGED <<build, fn, args, mem, ub, ret>>

\* one statement pair of final(a, b, c); the last one is followed by return c
JenkinsFinal(p) ==
    /\ Running
    /\ fn[p] = "jenkins" /\ pc[p] = "final"
    /\ LET j == loc[p].j
           o == FinalOp(j)
           s == FinalStep(j, ABC(p))
           last == j + 1 >= FinalSteps
       IN  /\ loc' = [loc EXCEPT ![p].a = s.a, ![p].b = s.b, ![p].c = s.c, ![p].j = j + 1]
           /\ log' = [log EXCEPT ![p] = Append(log[p],
                         Entry("final", o.tgt, j, RotShifts(o.r), s))]
           /\ pc' = [pc EXCEPT ![p] = IF last THEN "done" ELSE "final"]
           /\ ret' = [ret EXCEPT ![p] = IF last THEN s.c ELSE NoRet]
    /\ UNCHANGED <<build, fn, args, mem, ub>>

\* the caller takes the digest; the frame is gone
Return(p) ==
    /\ Running
    /\ pc[p] = "done"
    /\ pc' = [pc EXCEPT ![p] = "idle"]
    /\ fn' = [fn EXCEPT ![p] = "none"]
    /\ args' = [args EXCEPT ![p] = NoArgs]
    /\ mem' = [mem EXCEPT ![FrameOf(p)] = [i \in 1 .. DataLen |-> 0]]
    /\ loc' = [loc EXCEPT ![p] = IdleLoc]
    /\ log' = [log EXCEPT ![p] = <<>>]
    /\ ub' = [ub EXCEPT ![p] = {}]
    /\ ret' = [ret EXCEPT ![p] = NoRet]
    /\ UNCHANGED build

Step(p) ==
    \/ MurmurPack(p)
    \/ MurmurBlock(p)
    \/ MurmurTail(p)
    \/ MurmurFin(p)
    \/ JenkinsPack(p)
    \/ JenkinsBlock(p)
    \/ JenkinsTail(p)
    \/ JenkinsFinal(p)
    \/ Return(p)

Next == \E p \in Callers : CallSeq(p) \/ Step(p)

Spec == Init /\ [][Next]_vars

NextConc == \E p \in Callers : CallConc(p) \/ Step(p)

SpecConc == Init /\ [][NextConc]_vars

---------------------------------------------------------------------------
(* Properties                                                              *)

Done(p) == pc[p] = "done"

\* the key buffer has been written and the frame is still live
Packed(p) == pc[p] \notin {"idle", "pack"}

\* the word whose least significant byte is key[k], 0-based
LEWord(key, k) ==
    u32(key[k + 4] * 256 + key[k + 3], key[k + 2] * 256 + key[k + 1])

\* the serialized FlowKey: every field least-significant byte first
LittleEndianKey(t) ==
    <<t.src_ip[2] % 256, t.src_ip[2] \div 256, t.src_ip[1] % 256, t.src_ip[1] \div 256,
      t.dst_ip[2] % 256, t.dst_ip[2] \div 256, t.dst_ip[1] % 256, t.dst_ip[1] \div 256,
      t.src_port % 256, t.src_port \div 256,
      t.dst_port % 256, t.dst_port \div 256,
      t.protocol>>

\* the digest of f(t) on a host of the given byte order
HashOn(f, t, endian) ==
    IF f = "murmur" THEN murmurhash3_5tuple(t, endian) ELSE jenkins_hash_5tuple(t)

\* the entries of a log with the given op
OpsOf(l, op) == SelectSeq(l, LAMBDA e : e.op = op)

\* C1: in both variants the 13-byte key buffer, once built, holds the source
\* address in bytes 0-3, the destination address in bytes 4-7, the source port
\* in bytes 8-9, the destination port in bytes 10-11, each least-significant
\* byte first, and the protocol in byte 12, whatever the host's byte order.
C1_KeyLayout ==
    \A p \in Callers : Packed(p) => Key(p) = LittleEndianKey(args[p])

\* C2: the digest a call returns is the digest of the same 5-tuple and seed
\* on a little-endian host and on a big-endian host.
C2_EndianIndependent ==
    \A p \in Callers :
        Done(p) => /\ ret[p] = HashOn(fn[p], args[p], "little")
                   /\ ret[p] = HashOn(fn[p], args[p], "big")

\* one full block k absorbed into h, as the claim C3 words it
C3Block(h, k) ==
    LET k1 == Mul32(rotl32(Mul32(k, u32(\Hcc9e, \H2d51)), 15), u32(\H1b87, \H3593))
    IN  Add32(Mul32(rotl32(Xor32(h, k1), 13), u32(0, 5)), u32(\He654, \H6b64))

C3Tail(h, byte) ==
    Xor32(h, Mul32(rotl32(Mul32(ToU32(byte), u32(\Hcc9e, \H2d51)), 15), u32(\H1b87, \H3593)))

\* C3: in Variant A the accumulator before finalization is the seed after
\* absorbing the little-endian words of key bytes 0-3, 4-7, 8-11 as three full
\* blocks, in order, and then byte 12 through the tail step (multiply, rotate,
\* multiply, exclusive-or only); the tail step is taken for every input.
C3_BlocksThenTail ==
    \A p \in Callers :
        fn[p] = "murmur" /\ pc[p] \in {"fin", "done"} =>
            /\ Len(OpsOf(log[p], "block")) = 3
            /\ Len(OpsOf(log[p], "tail")) = 1
            /\ log[p][4].op = "tail" /\ log[p][4].n = 1
            /\ log[p][4].val =
                 Then(C3Block(args[p].seed, LEWord(Key(p), 0)), LAMBDA h0 :
                 Then(C3Block(h0, LEWord(Key(p), 4)), LAMBDA h2 :
                 Then(C3Block(h2, LEWord(Key(p), 8)), LAMBDA h3 :
                      C3Tail(h3, Key(p)[13]))))

\* C3 on a little-endian host, where it holds
C3_BlocksThenTailLE == build.endian = "little" => C3_BlocksThenTail

WordOk(w) == w \in U32

ValOk(v) ==
    IF DOMAIN v = {"a", "b", "c"}
    THEN WordOk(v.a) /\ WordOk(v.b) /\ WordOk(v.c)
    ELSE WordOk(v)

\* C8: in both variants every intermediate word and the digest lie in
\* 0..2^32-1, every shift or rotate amount is strictly between 0 and 32, each
\* byte-to-word shift yields the unsigned 32-bit value, and no input leads to
\* an undefined or failing step.
C8_NoUndefinedStep ==
    \A p \in Callers :
        /\ "signed shift overflow" \notin ub[p]
        /\ WordOk(loc[p].h1) /\ WordOk(loc[p].a) /\ WordOk(loc[p].b) /\ WordOk(loc[p].c)
        /\ \A k \in 1 .. Len(log[p]) :
              /\ ValOk(log[p][k].val)
              /\ log[p][k].sh \subseteq 1 .. 31
        /\ Done(p) => WordOk(ret[p])

\* C8 without its last clause: the values and the shift amounts, which hold
C8_WordsAndShifts ==
    \A p \in Callers :
        /\ WordOk(loc[p].h1) /\ WordOk(loc[p].a) /\ WordOk(loc[p].b) /\ WordOk(loc[p].c)
        /\ \A k \in 1 .. Len(log[p]) :
              /\ ValOk(log[p][k].val)
              /\ log[p][k].sh \subseteq 1 .. 31
        /\ Done(p) => WordOk(ret[p])

\* the finalization of Variant A on the accumulator h, as C4 is amended
C4Expected(h) ==
    Then(Xor32(h, ToU32(13)), LAMBDA h0 :
    Then(Mul32(Xor32(h0, Shr32(h0, 16)), u32(\H85eb, \Hca6b)), LAMBDA h2 :
    Then(Mul32(Xor32(h2, Shr32(h2, 13)), u32(\Hc2b2, \Hae35)), LAMBDA h4 :
         Xor32(h4, Shr32(h4, 16)))))

\* the entries of a log after its first n
Rest(l, n) == SubSeq(l, n + 1, Len(l))

OpNames(l) == [k \in 1 .. Len(l) |-> l[k].op]

\* C4 (as claimed): in Variant A the finalization exclusive-ors the length in
\* and then runs three rounds of (shift-right exclusive-or, multiply), ending
\* with a final shift-right exclusive-or.
C4_ThreeRounds ==
    \A p \in Callers :
        fn[p] = "murmur" /\ Done(p) =>
            OpNames(Rest(log[p], 4)) =
                <<"xorlen", "xorshift", "mul", "xorshift", "mul", "xorshift", "mul",
                  "xorshift">>

\* C4 (amended): in Variant A the finalization exclusive-ors the accumulator
\* with the length 13 and then runs two rounds of (shift-right exclusive-or,
\* multiply), with shifts 16 and 13 and multipliers 0x85ebca6b and 0xc2b2ae35,
\* ending with a shift-right exclusive-or by 16; the digest returned is that
\* final accumulator.
C4_TwoRounds ==
    \A p \in Callers :
        fn[p] = "murmur" /\ Done(p) =>
            LET f == Rest(log[p], 4)
            IN  /\ OpNames(f) = <<"xorlen", "xorshift", "mul", "xorshift", "mul", "xorshift">>
                /\ f[2].sh = {16} /\ f[4].sh = {13} /\ f[6].sh = {16}
                /\ ret[p] = f[6].val
                /\ ret[p] = C4Expected(log[p][4].val)

\* a little-endian call of main()'s input has returned main()'s MurmurHash3 digest
C4_Witness ==
    \E p \in Callers :
        /\ fn[p] = "murmur" /\ Done(p)
        /\ args[p] = MainTuple /\ build.endian = "little"
        /\ ret[p] = u32(\H549d, \Hed1b)

\* C5: in Variant B the words entering finalization are
\*   A = 0xdeadbeef + 13 + seed + source_address + protocol,
\*   B = 0xdeadbeef + 13 + seed + destination_address,
\*   C = 0xdeadbeef + 13 + seed + (source_port | destination_port << 16),
\* all mod 2^32, also for addresses and ports with the top bit set; byte 12 is
\* added to A only and no mix round runs before finalization.
C5_WordsEnteringFinal ==
    \A p \in Callers :
        fn[p] = "jenkins" /\ pc[p] = "final" /\ loc[p].j = 0 =>
            LET t == args[p]
                base == Add32(Add32(u32(\Hdead, \Hbeef), ToU32(13)), t.seed)
            IN  /\ loc[p].a = Add32(Add32(base, t.src_ip), ToU32(t.protocol))
                /\ loc[p].b = Add32(base, t.dst_ip)
                /\ loc[p].c = Add32(base, u32(t.dst_port, t.src_port))
                /\ OpNames(log[p]) = <<"block", "tail">>
                /\ log[p][2].val.b = log[p][1].val.b
                /\ log[p][2].val.c = log[p][1].val.c

\* a call with top bits set in both addresses and a port enters finalization
C5_Witness ==
    \E p \in Callers :
        /\ fn[p] = "jenkins" /\ pc[p] = "final" /\ loc[p].j = 0
        /\ args[p].src_ip = u32(\H8000, 0)
        /\ args[p].dst_ip = u32(\HFFFF, \HFFFF)
        /\ args[p].dst_port = 65535
        /\ args[p].protocol = 6

\* tgt ^= src; tgt -= rot(src, r)
C6Pair(s, tgt, src, r) ==
    [s EXCEPT ![tgt] = Sub32(Xor32(s[tgt], s[src]), rot(s[src], r))]

C6Expected(s) ==
    Then(C6Pair(s, "c", "b", 14), LAMBDA s1 :
    Then(C6Pair(s1, "a", "c", 11), LAMBDA s2 :
    Then(C6Pair(s2, "b", "a", 25), LAMBDA s3 :
    Then(C6Pair(s3, "c", "b", 16), LAMBDA s4 :
    Then(C6Pair(s4, "a", "c", 4), LAMBDA s5 :
    Then(C6Pair(s5, "b", "a", 14), LAMBDA s6 :
         C6Pair(s6, "c", "b", 24)))))))

Targets(l) == [k \in 1 .. Len(l) |-> l[k].tgt]

\* C6 (as claimed): in Variant B finalization is six paired operations on the
\* targets C, A, B, C, A, B, and the digest is word C after these six.
C6_SixOps ==
    \A p \in Callers :
        fn[p] = "jenkins" /\ Done(p) =>
            LET f == OpsOf(log[p], "final")
            IN  /\ Targets(f) = <<"c", "a", "b", "c", "a", "b">>
                /\ ret[p] = f[6].val.c

\* C6 (amended): in Variant B finalization is seven paired operations
\* (exclusive-or with another word, then subtraction of that word rotated) with
\* rotates 14, 11, 25, 16, 4, 14, 24 on the targets C, A, B, C, A, B, C, and the
\* digest is word C after the seventh.
C6_SevenOps ==
    \A p \in Callers :
        fn[p] = "jenkins" /\ Done(p) =>
            LET f == OpsOf(log[p], "final")
            IN  /\ Targets(f) = <<"c", "a", "b", "c", "a", "b", "c">>
                /\ [k \in 1 .. 7 |-> f[k].sh] =
                       <<{14, 18}, {11, 21}, {25, 7}, {16}, {4, 28}, {14, 18}, {24, 8}>>
                /\ ret[p] = f[7].val.c
                /\ ret[p] = C6Expected(log[p][2].val).c

\* a call of main()'s input has returned main()'s lookup3 digest, which is not
\* word C after the sixth operation
C6_Witness ==
    \E p \in Callers :
        /\ fn[p] = "jenkins" /\ Done(p)
        /\ args[p] = MainTuple
        /\ ret[p] = u32(\Hb196, \H650b)
        /\ ret[p] # OpsOf(log[p], "final")[6].val.c

\* Variant A on the key zero-padded to four full blocks
PaddedA(t, endian) ==
    murmur3_32(PackA([i \in 1 .. 16 |-> 0], t, endian), 16, t.seed, endian)

\* Variant B on the key zero-padded to two full blocks: the first block is
\* mixed, the second is added and finalized
PaddedB(t) ==
    LET key == PackB([i \in 1 .. 24 |-> 0], t)
        v == Add32(Add32(u32(\Hdead, \Hbeef), ToU32(24)), t.seed)
    IN  Then(mix(AddBlock([a |-> v, b |-> v, c |-> v], key)), LAMBDA s1 :
        Then([a |-> Add32(s1.a, LEWord(key, 12)),
              b |-> Add32(s1.b, LEWord(key, 16)),
              c |-> Add32(s1.c, LEWord(key, 20))], LAMBDA s2 : final(0, s2).c))

Padded(f, t, endian) == IF f = "murmur" THEN PaddedA(t, endian) ELSE PaddedB(t)

TailTaken(p) ==
    LET tl == OpsOf(log[p], "tail")
    IN  Len(tl) = 1 /\ tl[1].n = 1

C9_OwnArgumentsOnly ==
    /\ \A p \in Callers : Done(p) => ret[p] = HashOn(fn[p], args[p], build.endian)
    /\ \A p, q \in Callers :
          Done(p) /\ Done(q) /\ fn[p] = fn[q] /\ args[p] = args[q] => ret[p] = ret[q]
    /\ \A p \in Callers : Packed(p) /\ pc[p] # "trap" =>
          Key(p) = (IF fn[p] = "murmur"
                    THEN PackA([i \in 1 .. DataLen |-> 0], args[p], build.endian)
                    ELSE PackB([i \in 1 .. DataLen |-> 0], args[p]))

\* two callers have both returned from the same call
C9_Witness ==
    \E p, q \in Callers :
        /\ p # q /\ Done(p) /\ Done(q)
        /\ fn[p] = "murmur" /\ fn[q] = "murmur"
        /\ args[p] = args[q]
        /\ ret[p] = ret[q]

\* the three sums Variant B's digest is a function of
Sums(t) ==
    <<Add32(Add32(t.seed, t.src_ip), ToU32(t.protocol)),
      Add32(t.seed, t.dst_ip),
      Add32(t.seed, u32(t.dst_port, t.src_port))>>

\* the digest as a function of the three sums alone
DigestOfSums(S) ==
    LET base == Add32(u32(\Hdead, \Hbeef), ToU32(13))
    IN  C6Expected([a |-> Add32(base, S[1]), b |-> Add32(base, S[2]),
                    c |-> Add32(base, S[3])]).c

\* every Variant B digest is that function of the three sums of its input
C10_ViaSums ==
    \A p \in Callers :
        fn[p] = "jenkins" /\ Done(p) => ret[p] = DigestOfSums(Sums(args[p]))

\* C10: the digest of Variant B depends on its input only through seed +
\* source_address + protocol, seed + destination_address and seed +
\* (source_port | destination_port << 16), all mod 2^32: two calls whose inputs
\* agree on these sums return the same digest; so do (source_address s,
\* protocol p) and (s + 1, p - 1) with the rest equal.
C10_SumsDecide ==
    /\ C10_ViaSums
    /\ \A p, q \in Callers :
          /\ fn[p] = "jenkins" /\ fn[q] = "jenkins" /\ Done(p) /\ Done(q)
          /\ Sums(args[p]) = Sums(args[q])
          => ret[p] = ret[q]

\* (source_address 0, protocol 1) and (source_address 1, protocol 0) have
\* both been hashed
C10_Witness ==
    \E p, q \in Callers :
        /\ fn[p] = "jenkins" /\ fn[q] = "jenkins" /\ Done(p) /\ Done(q)
        /\ args[p].src_ip = Zero32 /\ args[p].protocol = 1
        /\ args[q].src_ip = u32(0, 1) /\ args[q].protocol = 0
        /\ ret[p] = ret[q]

=============================================================================
